---- MODULE Spec2Model ----
(***************************************************************************)
(* Model of src/core/merge_right.rs: the MergeRight capability for         *)
(* Option, Arc, Vec, BTreeMap and serde_yaml::Value.                       *)
(*                                                                         *)
(* Every merge_right is a pure function; it is written here as an operator *)
(* that follows the code arm by arm.  The state machine draws the operands *)
(* of one call from bounded sets, applies the operator and records the     *)
(* operands and the outcome.                                               *)
(***************************************************************************)
EXTENDS Integers, Sequences, FiniteSets, TLC

VARIABLES pc, left, right, third, out

vars == <<pc, left, right, third, out>>

(***************************************************************************)
(* Bounds of the explored inputs.                                          *)
(***************************************************************************)
MaxSeqLen == 2     \* longest Sequence among the Value operands
MaxVecLen == 2     \* longest Vec operand
MaxKey == 3        \* BTreeMap keys are 1..MaxKey
MaxMapLen == 2     \* most entries of a Mapping operand

(***************************************************************************)
(* Valid<T, String>: Success(value) or Failure(non-empty list of errors).  *)
(* ValidationError is the ordered list of errors.                          *)
(***************************************************************************)
Succeed(v) == [ok |-> TRUE, value |-> v]

FromValidationErr(errs) == [ok |-> FALSE, errors |-> errs]

EmptyErrors == << >>

Combine(a, b) == a \o b

IsEmpty(errs) == errs = << >>

(***************************************************************************)
(* Option<A>: None or Some(v).                                             *)
(***************************************************************************)
None == [some |-> FALSE]

Some(v) == [some |-> TRUE, v |-> v]

(***************************************************************************)
(* serde_yaml::Value.  Mapping entries are kept as the ordered list of     *)
(* (key, value) slots of the underlying index map.                         *)
(***************************************************************************)
VNull == [kind |-> "Null"]
VBool(b) == [kind |-> "Bool", b |-> b]
VNumber(n) == [kind |-> "Number", n |-> n]
VString(s) == [kind |-> "String", s |-> s]
VSequence(xs) == [kind |-> "Sequence", items |-> xs]
VMapping(es) == [kind |-> "Mapping", entries |-> es]
VTagged(t, v) == [kind |-> "Tagged", tag |-> t, value |-> v]

Entry(k, v) == [key |-> k, value |-> v]

IsScalar(v) == v.kind \in {"Null", "Bool", "Number", "String"}

\* Position of key in the entries, 0 when absent (Mapping::get / contains).
IndexOf(entries, key) ==
    IF \E i \in 1..Len(entries) : entries[i].key = key
    THEN CHOOSE i \in 1..Len(entries) : entries[i].key = key
    ELSE 0

\* A variant that takes the value out and leaves the key in its slot.
MappingRemoveKeepSlot(entries, key) == entries

\* Mapping::remove is swap_remove of the index map: the last entry takes the
\* removed entry's slot.
MappingRemove(entries, key) ==
    LET n == Len(entries)
        i == IndexOf(entries, key)
    IN  IF i = 0 THEN entries
        ELSE [j \in 1..(n - 1) |-> IF j = i THEN entries[n] ELSE entries[j]]

\* A variant that forgets to store the entry.
MappingInsertLost(entries, key, v) == entries

\* Mapping::insert: replaces the value in place when the key is present,
\* appends a new last slot otherwise.
MappingInsert(entries, key, v) ==
    LET i == IndexOf(entries, key)
    IN  IF i = 0 THEN Append(entries, Entry(key, v))
        ELSE [entries EXCEPT ![i] = Entry(key, v)]

\* A variant in which a scalar left survives.
ScalarArmKeepLeft(self, other) == Succeed(self)

\* (Null | Bool | Number | String, other) => Valid::succeed(other)
ScalarArm(self, other) == Succeed(other)

\* A variant that flattens nothing and drops a non-sequence right.
SequenceArmDropOther(lhs, other) ==
    IF other.kind = "Sequence"
    THEN Succeed(VSequence(lhs \o other.items))
    ELSE Succeed(VSequence(lhs))

\* (Sequence(lhs), other): extend by a Sequence, push anything else.
SequenceArm(lhs, other) ==
    IF other.kind = "Sequence"
    THEN Succeed(VSequence(lhs \o other.items))
    ELSE Succeed(VSequence(Append(lhs, other)))

\* A variant that puts the left mapping in front of the right sequence.
MappingOtherArmFront(lhs, other) ==
    IF other.kind = "Sequence"
    THEN Succeed(VSequence(<<VMapping(lhs)>> \o other.items))
    ELSE Succeed(other)

\* (Mapping(lhs), other) with other not a Mapping.
MappingOtherArm(lhs, other) ==
    IF other.kind = "Sequence"
    THEN Succeed(VSequence(Append(other.items, VMapping(lhs))))
    ELSE Succeed(other)

\* A variant that replaces the payload instead of merging it.
TaggedArmNoMerge(tag, other, inner) ==
    IF inner.ok THEN Succeed(other) ELSE inner

\* (Tagged(lhs), other); inner is the outcome of lhs.value.merge_right(
\* rhs.value), which the ? operator returns early when it is a failure.
TaggedArm(tag, other, inner) ==
    IF other.kind = "Tagged"
    THEN IF tag = other.tag
         THEN IF inner.ok THEN Succeed(VTagged(tag, inner.value)) ELSE inner
         ELSE Succeed(other)
    ELSE Succeed(other)

RECURSIVE MergeRight(_, _)
RECURSIVE MappingLoop(_, _, _)

\* for (key, other_value) in rhs { ... }: returns the left entries and the
\* errors accumulated after the whole of rhs has been visited.
MappingLoop(lhs, rhs, errors) ==
    IF rhs = << >> THEN [lhs |-> lhs, errors |-> errors]
    ELSE LET key == Head(rhs).key
             other_value == Head(rhs).value
             i == IndexOf(lhs, key)
         IN  IF i # 0
             THEN LET res == MergeRight(lhs[i].value, other_value)
                      removed == MappingRemove(lhs, key)
                  IN  IF res.ok
                      THEN MappingLoop(MappingInsert(removed, key, res.value),
                                       Tail(rhs), errors)
                      ELSE MappingLoop(removed, Tail(rhs),
                                       Combine(errors, res.errors))
             ELSE MappingLoop(MappingInsert(lhs, key, other_value),
                              Tail(rhs), errors)

\* A variant that reports a conflict for every key both mappings hold.
MappingArmStrict(lhs, rhs) ==
    LET dup == SelectSeq(rhs, LAMBDA e : IndexOf(lhs, e.key) # 0)
    IN  IF dup = << >>
        THEN Succeed(VMapping(MappingLoop(lhs, rhs, EmptyErrors).lhs))
        ELSE FromValidationErr([i \in 1..Len(dup) |-> dup[i].key])

\* (Mapping(lhs), Mapping(rhs))
MappingArm(lhs, rhs) ==
    LET r == MappingLoop(lhs, rhs, EmptyErrors)
    IN  IF IsEmpty(r.errors)
        THEN Succeed(VMapping(r.lhs))
        ELSE FromValidationErr(r.errors)

\* impl MergeRight for Value
MergeRight(self, other) ==
    IF IsScalar(self) THEN ScalarArm(self, other)
    ELSE IF self.kind = "Sequence" THEN SequenceArm(self.items, other)
    ELSE IF self.kind = "Mapping"
         THEN IF other.kind = "Mapping"
              THEN MappingArm(self.entries, other.entries)
              ELSE MappingOtherArm(self.entries, other)
    ELSE TaggedArm(self.tag, other,
                   IF other.kind = "Tagged" /\ self.tag = other.tag
                   THEN MergeRight(self.value, other.value)
                   ELSE Succeed(other))

(***************************************************************************)
(* The Value operands.                                                     *)
(***************************************************************************)
Keys == {"x", "y", "z"}
Tags == {"A", "B"}

Scalars == {VNull, VBool(TRUE), VNumber(1), VString("a")}

SeqsUpTo(S, n) == UNION {[1..k -> S] : k \in 0..n}

\* Elements of the Sequence operands.
SeqElems == {VNumber(1), VString("a"), VTagged("A", VNull)}

SeqValues == {VSequence(xs) : xs \in SeqsUpTo(SeqElems, MaxSeqLen)}

\* Values stored under the keys of the Mapping operands.
MapVals ==
    {VNumber(1),
     VSequence(<<VString("a")>>),
     VMapping(<<Entry("x", VString("a"))>>),
     VTagged("A", VNumber(1))}

KeyOrders ==
    {ks \in SeqsUpTo(Keys, MaxMapLen) :
        \A i, j \in 1..Len(ks) : i # j => ks[i] # ks[j]}

EntriesOver(ks, V) ==
    {[i \in 1..Len(ks) |-> Entry(ks[i], vs[i])] : vs \in [1..Len(ks) -> V]}

\* Values of the Mapping operands that hold every key.
WideVals == {VNumber(1), VString("a")}

FullKeyOrders ==
    {ks \in [1..Cardinality(Keys) -> Keys] :
        \A i, j \in 1..Len(ks) : i # j => ks[i] # ks[j]}

MapValues ==
    {VMapping(es) :
        es \in UNION ({EntriesOver(ks, MapVals) : ks \in KeyOrders} \cup
                      {EntriesOver(ks, WideVals) : ks \in FullKeyOrders})}

\* Payloads of the Tagged operands.
TagInner ==
    {VNull, VNumber(1), VString("a"),
     VSequence(<<VNumber(1)>>),
     VMapping(<<Entry("x", VNumber(1))>>),
     VMapping(<<Entry("y", VString("a")), Entry("x", VSequence(<<VNull>>))>>),
     VTagged("A", VNumber(1)), VTagged("B", VString("a"))}

TaggedValues == {VTagged(t, v) : t \in Tags, v \in TagInner}

Values == Scalars \cup SeqValues \cup MapValues \cup TaggedValues

(***************************************************************************)
(* impl MergeRight for Vec<A>                                              *)
(***************************************************************************)
\* A variant that skips the right elements the left list already holds.
VecMergeRightDedup(self, other) ==
    Succeed(self \o SelectSeq(other,
                LAMBDA e : \A i \in 1..Len(self) : self[i] # e))

\* self.extend(other); Valid::succeed(self)
VecMergeRight(self, other) == Succeed(self \o other)

VecElems == {1, 2}

Vecs == SeqsUpTo(VecElems, MaxVecLen)

(***************************************************************************)
(* impl MergeRight for BTreeMap<K, V>.  A map is a function from its key   *)
(* set to V and is iterated in ascending key order.  V is a type whose     *)
(* merge_right can fail: a write-once cell, 0 meaning unset.               *)
(***************************************************************************)
VItems == {0, 1, 2}

VMergeRight(a, b) ==
    IF a = 0 THEN Succeed(b)
    ELSE IF b = 0 \/ a = b THEN Succeed(a)
    ELSE FromValidationErr(<<[was |-> a, now |-> b]>>)

BTreeRemove(m, k) == [x \in DOMAIN m \ {k} |-> m[x]]

BTreeInsert(m, k, v) == [x \in DOMAIN m \cup {k} |-> IF x = k THEN v ELSE m[x]]

MinKey(S) == CHOOSE k \in S : \A x \in S : k <= x

RECURSIVE BTreeLoopFailFast(_, _, _, _)
\* A variant that stops at the first failing key.
BTreeLoopFailFast(self, other, todo, errors) ==
    IF todo = {} \/ ~IsEmpty(errors) THEN [self |-> self, errors |-> errors]
    ELSE LET other_key == MinKey(todo)
             other_value == other[other_key]
         IN  IF other_key \in DOMAIN self
             THEN LET res == VMergeRight(self[other_key], other_value)
                      removed == BTreeRemove(self, other_key)
                  IN  IF res.ok
                      THEN BTreeLoopFailFast(
                               BTreeInsert(removed, other_key, res.value),
                               other, todo \ {other_key}, errors)
                      ELSE BTreeLoopFailFast(removed, other,
                               todo \ {other_key}, Combine(errors, res.errors))
             ELSE BTreeLoopFailFast(
                      BTreeInsert(self, other_key, other_value),
                      other, todo \ {other_key}, errors)

RECURSIVE BTreeLoop(_, _, _, _)
\* for (other_key, other_value) in other { ... }; todo holds the keys of
\* other not yet visited.
BTreeLoop(self, other, todo, errors) ==
    IF todo = {} THEN [self |-> self, errors |-> errors]
    ELSE LET other_key == MinKey(todo)
             other_value == other[other_key]
         IN  IF other_key \in DOMAIN self
             THEN LET res == VMergeRight(self[other_key], other_value)
                      removed == BTreeRemove(self, other_key)
                  IN  IF res.ok
                      THEN BTreeLoop(BTreeInsert(removed, other_key, res.value),
                                     other, todo \ {other_key}, errors)
                      ELSE BTreeLoop(removed, other, todo \ {other_key},
                                     Combine(errors, res.errors))
             ELSE BTreeLoop(BTreeInsert(self, other_key, other_value),
                            other, todo \ {other_key}, errors)

BTreeMapMergeRight(self, other) ==
    LET r == BTreeLoop(self, other, DOMAIN other, EmptyErrors)
    IN  IF IsEmpty(r.errors)
        THEN Succeed(r.self)
        ELSE FromValidationErr(r.errors)

BTreeMaps == UNION {[D -> VItems] : D \in SUBSET (1..MaxKey)}

(***************************************************************************)
(* impl MergeRight for Option<A> and for Arc<A>, with A = Value, whose     *)
(* Default is Null.  An Arc operand is its content and whether another     *)
(* strong reference to it is alive.                                        *)
(***************************************************************************)
\* A variant that merges a missing side as the default value.
OptionMergeRightDefault(self, other) ==
    LET res == MergeRight(IF self.some THEN self.v ELSE VNull,
                          IF other.some THEN other.v ELSE VNull)
    IN  IF res.ok THEN Succeed(Some(res.value)) ELSE res

OptionMergeRight(self, other) ==
    IF self.some /\ other.some
    THEN LET res == MergeRight(self.v, other.v)
         IN  IF res.ok THEN Succeed(Some(res.value)) ELSE res
    ELSE IF other.some THEN Succeed(Some(other.v))
    ELSE IF self.some THEN Succeed(Some(self.v))
    ELSE Succeed(None)

ValueDefault == VNull

UnwrapOrDefault(opt) == IF opt.some THEN opt.v ELSE ValueDefault

Arc(content, shared) == [content |-> content, shared |-> shared]

\* Arc::new: the only reference to the content.
ArcNew(content) == Arc(content, FALSE)

\* Arc::into_inner: the content when this was the last strong reference.
ArcIntoInner(a) == IF a.shared THEN None ELSE Some(a.content)

ArcMergeRight(self, other) ==
    LET l == ArcIntoInner(self)
        r == ArcIntoInner(other)
        res == OptionMergeRight(l, r)
    IN  IF res.ok THEN Succeed(ArcNew(UnwrapOrDefault(res.value))) ELSE res

ArcContents == Scalars \cup SeqValues \cup TaggedValues

Arcs == {Arc(c, s) : c \in ArcContents, s \in BOOLEAN}

(***************************************************************************)
(* State machine: one call of one merge_right.  left and right are the     *)
(* operands, out the returned Valid; third is a further operand used to    *)
(* state the laws of the list merge.                                       *)
(***************************************************************************)
Init ==
    /\ pc = "start"
    /\ left = None
    /\ right = None
    /\ third = None
    /\ out = None

\* <Value as MergeRight>::merge_right(left, right)
ValueCall ==
    /\ pc = "start"
    /\ \E l \in Values, r \in Values :
          /\ left' = l
          /\ right' = r
          /\ out' = MergeRight(l, r)
    /\ pc' = "value"
    /\ UNCHANGED third

\* <Vec<A> as MergeRight>::merge_right(left, right)
VecCall ==
    /\ pc = "start"
    /\ \E a \in Vecs, b \in Vecs, c \in Vecs :
          /\ left' = a
          /\ right' = b
          /\ third' = c
          /\ out' = VecMergeRight(a, b)
    /\ pc' = "vec"

\* <BTreeMap<K, V> as MergeRight>::merge_right(left, right)
BTreeMapCall ==
    /\ pc = "start"
    /\ \E l \in BTreeMaps, r \in BTreeMaps :
          /\ left' = l
          /\ right' = r
          /\ out' = BTreeMapMergeRight(l, r)
    /\ pc' = "btree"
    /\ UNCHANGED third

\* <Arc<A> as MergeRight>::merge_right(left, right)
ArcCall ==
    /\ pc = "start"
    /\ \E l \in Arcs, r \in Arcs :
          /\ left' = l
          /\ right' = r
          /\ out' = ArcMergeRight(l, r)
    /\ pc' = "arc"
    /\ UNCHANGED third

Next == ValueCall \/ VecCall \/ BTreeMapCall \/ ArcCall

Spec == Init /\ [][Next]_vars

(***************************************************************************)
(* Helpers of the properties.                                              *)
(***************************************************************************)
KeySeq(entries) == [i \in 1..Len(entries) |-> entries[i].key]

KeySet(entries) == {entries[i].key : i \in 1..Len(entries)}

ValueAt(entries, k) == entries[IndexOf(entries, k)].value

Occurrences(entries, k) ==
    Cardinality({i \in 1..Len(entries) : entries[i].key = k})

BothMappings == pc = "value" /\ left.kind = "Mapping" /\ right.kind = "Mapping"

SharedKeys == KeySet(left.entries) \cap KeySet(right.entries)

\* C1: a scalar left merged with any right value gives Success(right),
\* the right value unchanged.
ScalarLeftYieldsRight ==
    (pc = "value" /\ IsScalar(left)) => out = Succeed(right)

ScalarLeftWitness ==
    /\ pc = "value"
    /\ left = VString("a")
    /\ right.kind = "Mapping" /\ Len(right.entries) = 2
    /\ out = Succeed(right)

\* C2: a Sequence left gives Success(Sequence(ls ++ tail)); tail is rs for a
\* Sequence right and the one element right otherwise; the elements of ls
\* keep their positions and nothing is dropped.
SequenceLeftAppends ==
    (pc = "value" /\ left.kind = "Sequence") =>
        LET ls == left.items
            tail == IF right.kind = "Sequence" THEN right.items ELSE <<right>>
        IN  /\ out.ok
            /\ out.value.kind = "Sequence"
            /\ Len(out.value.items) = Len(ls) + Len(tail)
            /\ \A i \in 1..Len(ls) : out.value.items[i] = ls[i]
            /\ \A j \in 1..Len(tail) : out.value.items[Len(ls) + j] = tail[j]

SequenceLeftWitness ==
    /\ pc = "value"
    /\ left.kind = "Sequence" /\ Len(left.items) = 2
    /\ left.items[1] = left.items[2]
    /\ right.kind = "Mapping" /\ Len(right.entries) = 1
    /\ Len(out.value.items) = 3

\* C3: Mapping merged with Mapping, nested merges succeeding: the result is
\* a Mapping whose key set is the union, each key once; a left-only key
\* keeps its value, a right-only key has the right value, a shared key has
\* the value of the recursive merge of the two values.
MappingUnion ==
    (BothMappings /\ \A k \in SharedKeys :
         MergeRight(ValueAt(left.entries, k), ValueAt(right.entries, k)).ok) =>
        /\ out.ok
        /\ out.value.kind = "Mapping"
        /\ LET lm == left.entries
               rm == right.entries
               m == out.value.entries
           IN  /\ KeySet(m) = KeySet(lm) \cup KeySet(rm)
               /\ \A k \in KeySet(m) : Occurrences(m, k) = 1
               /\ \A k \in KeySet(lm) \ KeySet(rm) :
                      ValueAt(m, k) = ValueAt(lm, k)
               /\ \A k \in KeySet(rm) \ KeySet(lm) :
                      ValueAt(m, k) = ValueAt(rm, k)
               /\ \A k \in SharedKeys :
                      ValueAt(m, k) =
                          MergeRight(ValueAt(lm, k), ValueAt(rm, k)).value
               /\ (rm = << >> => KeySet(m) = KeySet(lm))

MappingUnionWitness ==
    /\ BothMappings
    /\ KeySet(left.entries) = {"x", "y"}
    /\ KeySet(right.entries) = {"y", "z"}
    /\ ValueAt(left.entries, "y").kind = "Mapping"
    /\ ValueAt(right.entries, "y").kind = "Mapping"
    /\ out.ok /\ Len(out.value.entries) = 3

RECURSIVE ReinsertOrder(_, _)
ReinsertOrder(ks, rks) ==
    IF rks = << >> THEN ks
    ELSE LET k == Head(rks)
             n == Len(ks)
             at == {i \in 1..n : ks[i] = k}
             rest == IF at = {} THEN ks
                     ELSE [j \in 1..(n - 1) |->
                              IF j \in at THEN ks[n] ELSE ks[j]]
         IN  ReinsertOrder(Append(rest, k), Tail(rks))

MappingLeftOtherRight ==
    (pc = "value" /\ left.kind = "Mapping" /\ right.kind # "Mapping") =>
        IF right.kind = "Sequence"
        THEN /\ out.ok
             /\ out.value.kind = "Sequence"
             /\ Len(out.value.items) = Len(right.items) + 1
             /\ SubSeq(out.value.items, 1, Len(right.items)) = right.items
             /\ out.value.items[Len(right.items) + 1] = left
        ELSE out = Succeed(right)

MappingLeftOtherRightWitness ==
    /\ pc = "value"
    /\ left.kind = "Mapping" /\ Len(left.entries) = 2
    /\ right.kind = "Sequence" /\ Len(right.items) = 2
    /\ right.items[1] # right.items[2]
    /\ out.ok /\ out.value.items[3] = left

\* C6: a Tagged left with a Tagged right of the same tag gives Tagged(t, v),
\* v the success value of the merge of the payloads, and gives that merge's
\* failure when it fails; with any other right it gives right.
TaggedLeft ==
    /\ (pc = "value" /\ left.kind = "Tagged") =>
          IF right.kind = "Tagged" /\ right.tag = left.tag
          THEN LET inner == MergeRight(left.value, right.value)
               IN  IF inner.ok
                   THEN out = Succeed(VTagged(left.tag, inner.value))
                   ELSE out = inner
          ELSE out = Succeed(right)
    /\ \A t \in Tags, v \in TagInner :
          LET failure == FromValidationErr(<<"e1", "e2">>)
          IN  TaggedArm(t, VTagged(t, v), failure) = failure

TaggedLeftWitness ==
    /\ pc = "value"
    /\ left.kind = "Tagged" /\ right.kind = "Tagged"
    /\ left.tag = right.tag
    /\ left.value.kind = "Mapping" /\ right.value.kind = "Mapping"
    /\ out.ok /\ out.value.kind = "Tagged"
    /\ out.value.value # right.value
    /\ out.value.value # left.value

\* The shared keys of the two maps whose value merge fails.
FailingKeys(l, r) ==
    {k \in DOMAIN l \cap DOMAIN r : ~VMergeRight(l[k], r[k]).ok}

RECURSIVE ErrorsInKeyOrder(_, _, _)
ErrorsInKeyOrder(l, r, S) ==
    IF S = {} THEN << >>
    ELSE LET k == MinKey(S)
         IN  VMergeRight(l[k], r[k]).errors \o ErrorsInKeyOrder(l, r, S \ {k})

\* C7: the BTreeMap merge fails exactly when some shared key's value merge
\* fails; the failure holds the errors of every failing shared key in the
\* order the keys are visited; otherwise it succeeds with the key-wise
\* union.
BTreeMapFailSlow ==
    pc = "btree" =>
        LET failing == FailingKeys(left, right)
        IN  /\ out.ok <=> failing = {}
            /\ ~out.ok => out.errors = ErrorsInKeyOrder(left, right, failing)
            /\ out.ok =>
                  /\ DOMAIN out.value = DOMAIN left \cup DOMAIN right
                  /\ \A k \in DOMAIN left \ DOMAIN right :
                        out.value[k] = left[k]
                  /\ \A k \in DOMAIN right \ DOMAIN left :
                        out.value[k] = right[k]
                  /\ \A k \in DOMAIN left \cap DOMAIN right :
                        out.value[k] = VMergeRight(left[k], right[k]).value

BTreeMapFailSlowWitness ==
    /\ pc = "btree"
    /\ FailingKeys(left, right) = {1, 3}
    /\ 2 \in DOMAIN left \cap DOMAIN right
    /\ ~out.ok
    /\ Len(out.errors) = 2
    /\ out.errors[1] # out.errors[2]

\* The content an Arc operand stands for when a side that is still
\* referenced elsewhere is replaced by the default value.
ContentOrDefault(a) == IF a.shared THEN ValueDefault ELSE a.content

\* C8 as stated: the result wraps the merge of the two contents, the
\* default value standing in for a side that is not uniquely held.
ArcMergesDefaultForSharedSide ==
    pc = "arc" =>
        /\ out.ok
        /\ out.value.content =
              MergeRight(ContentOrDefault(left), ContentOrDefault(right)).value

\* C8 amended: both sides uniquely held, the result wraps the merge of the
\* contents; exactly one side uniquely held, it wraps that side's content
\* unchanged and no merge takes place; neither, it wraps the default value.
ArcTakesRecoveredSide ==
    pc = "arc" =>
        /\ out.ok
        /\ ~out.value.shared
        /\ out.value.content =
              IF ~left.shared /\ ~right.shared
              THEN MergeRight(left.content, right.content).value
              ELSE IF ~left.shared THEN left.content
              ELSE IF ~right.shared THEN right.content
              ELSE ValueDefault

ArcTakesRecoveredSideWitness ==
    /\ pc = "arc"
    /\ ~left.shared /\ right.shared
    /\ left.content.kind = "Sequence" /\ Len(left.content.items) = 1
    /\ out.ok /\ out.value.content = left.content
    /\ MergeRight(left.content, ValueDefault).value # left.content

\* C9: the Vec merge succeeds with the left elements followed by the right
\* elements, nothing removed; it is associative, and not commutative.
VecConcatAssociative ==
    /\ pc = "vec" =>
          /\ out.ok
          /\ Len(out.value) = Len(left) + Len(right)
          /\ \A i \in 1..Len(left) : out.value[i] = left[i]
          /\ \A j \in 1..Len(right) : out.value[Len(left) + j] = right[j]
          /\ VecMergeRight(out.value, third) =
                VecMergeRight(left, VecMergeRight(right, third).value)
    /\ \E a \in Vecs, b \in Vecs : VecMergeRight(a, b) # VecMergeRight(b, a)

VecConcatAssociativeWitness ==
    /\ pc = "vec"
    /\ Len(left) = 2 /\ Len(right) = 2 /\ Len(third) = 1
    /\ left[2] = right[1]
    /\ out # VecMergeRight(right, left)

\* C10: the Value merge returns Success for every pair of Values, and the
\* error accumulator of a Mapping merge stays empty.
ValueMergeNeverFails ==
    pc = "value" =>
        /\ out.ok
        /\ BothMappings =>
              IsEmpty(MappingLoop(left.entries, right.entries,
                                  EmptyErrors).errors)

ValueMergeNeverFailsWitness ==
    /\ BothMappings
    /\ \E k \in SharedKeys :
          /\ ValueAt(left.entries, k).kind = "Tagged"
          /\ ValueAt(right.entries, k).kind = "Tagged"
    /\ \E k \in SharedKeys :
          /\ ValueAt(left.entries, k).kind = "Mapping"
          /\ ValueAt(right.entries, k).kind = "Sequence"
    /\ out.ok

====
